---- MODULE Spec2Model ----
(***************************************************************************)
(* A model of the three scripts of the repository:                         *)
(*   code_analyzer.py    CodeAnalyzer: parse one file, walk its syntax     *)
(*                       tree, build one record per function definition,   *)
(*                       derive a priority from a record;                  *)
(*   rag.py              the chat loop over a document;                    *)
(*   reporting_agent.py  ReportingAgent: parse a unittest log, render it.  *)
(* Syntax-tree nodes are records with a "kind" field (the node class) and  *)
(* the fields of that class that hold child nodes or names.                *)
(***************************************************************************)
EXTENDS Naturals, Sequences, FiniteSets

VARIABLES
    fs_file,        \* code_analyzer: the file found at file_path
    pc,             \* code_analyzer: "start", "constructed" or "failed"
    self,           \* code_analyzer: the fields of the CodeAnalyzer object
    analyzer,       \* code_analyzer: TRUE when the caller holds the object
    raised,         \* code_analyzer: the exception the constructor raised
    first_result,   \* code_analyzer: what the first extract_functions call returned
    last_result,    \* code_analyzer: what the latest extract_functions call returned
    extract_calls,  \* code_analyzer: extract_functions calls made, up to MaxExtractCalls
    priority,       \* code_analyzer: the latest calculate_priority call and its value
    chat,           \* rag: the chat loop's variables and its log of iterations
    report          \* reporting_agent: the agent, its log file and its output files

vars == <<fs_file, pc, self, analyzer, raised, first_result, last_result,
          extract_calls, priority, chat, report>>

analyzerVars == <<fs_file, pc, self, analyzer, raised, first_result,
                  last_result, extract_calls, priority>>

(***************************************************************************)
(* Bounds of the model.                                                    *)
(***************************************************************************)
MaxNodes == 3        \* compound statements in a file of the nesting family
MaxBranchNodes == 2  \* compound statements in a function of the branch family
MaxExprDepth == 2    \* nesting depth of an expression statement
MaxDecorators == 2   \* decorators on one definition
MaxParams == 5       \* positional parameters of one definition
MaxExtractCalls == 2 \* extract_functions calls that are counted apart
MaxIterations == 3   \* iterations of the chat loop that are followed
MaxLogLines == 1     \* lines of a unittest log

(***************************************************************************)
(* Sequence helpers.                                                       *)
(***************************************************************************)
SeqsUpTo(S, n) == UNION {[1..k -> S] : k \in 0..n}

(***************************************************************************)
(* Expression nodes.                                                       *)
(***************************************************************************)
Load == [kind |-> "Load"]

Name(id) == [kind |-> "Name", id |-> id, ctx |-> Load]

Attribute(value, attr) ==
    [kind |-> "Attribute", value |-> value, attr |-> attr, ctx |-> Load]

Call(func, args) == [kind |-> "Call", func |-> func, args |-> args]

Subscript(value, slice) ==
    [kind |-> "Subscript", value |-> value, slice |-> slice, ctx |-> Load]

(***************************************************************************)
(* Statement nodes.  A node of the text carries lineno 0; ast_parse sets   *)
(* the line of every statement.                                            *)
(***************************************************************************)
Pass == [kind |-> "Pass", lineno |-> 0]

Expr(value) == [kind |-> "Expr", value |-> value, lineno |-> 0]

arg(name) == [kind |-> "arg", arg |-> name]

arguments(posonlyargs, args, vararg, kwonlyargs, kwarg, defaults) ==
    [kind |-> "arguments", posonlyargs |-> posonlyargs, args |-> args,
     vararg |-> vararg, kwonlyargs |-> kwonlyargs, kw_defaults |-> <<>>,
     kwarg |-> kwarg, defaults |-> defaults]

NoArguments == arguments(<<>>, <<>>, <<>>, <<>>, <<>>, <<>>)

Def(kind, name, args, body, decorator_list) ==
    [kind |-> kind, name |-> name, args |-> args, body |-> body,
     decorator_list |-> decorator_list, lineno |-> 0]

ClassDef(name, body) ==
    [kind |-> "ClassDef", name |-> name, body |-> body,
     decorator_list |-> <<>>, lineno |-> 0]

If(body, orelse) ==
    [kind |-> "If", test |-> Name("x"), body |-> body, orelse |-> orelse,
     lineno |-> 0]

For(kind, body) ==
    [kind |-> kind, target |-> Name("i"), iter |-> Name("x"), body |-> body,
     orelse |-> <<>>, lineno |-> 0]

While(body) ==
    [kind |-> "While", test |-> Name("x"), body |-> body, orelse |-> <<>>,
     lineno |-> 0]

ExceptHandler(body) == [kind |-> "ExceptHandler", body |-> body, lineno |-> 0]

Try(kind, body, finalbody) ==
    [kind |-> kind, body |-> body, handlers |-> <<ExceptHandler(<<Pass>>)>>,
     orelse |-> <<>>, finalbody |-> finalbody, lineno |-> 0]

withitem(context_expr) == [kind |-> "withitem", context_expr |-> context_expr]

With(kind, body) ==
    [kind |-> kind, items |-> <<withitem(Name("x"))>>, body |-> body,
     lineno |-> 0]

Module(body) == [kind |-> "Module", body |-> body]

\* The text of a file that is not valid source.
Garbage == [kind |-> "Garbage"]

DefKinds == {"FunctionDef", "AsyncFunctionDef"}

BranchKinds == {"If", "For", "While", "Try", "With"}

(***************************************************************************)
(* ast.iter_child_nodes: the child nodes of a node, field by field in the  *)
(* order of the node class's _fields.                                      *)
(***************************************************************************)
iter_child_nodes(node) ==
    CASE node.kind = "Module" -> node.body
      [] node.kind \in DefKinds ->
            <<node.args>> \o node.body \o node.decorator_list
      [] node.kind = "ClassDef" -> node.body \o node.decorator_list
      [] node.kind \in {"If", "While"} ->
            <<node.test>> \o node.body \o node.orelse
      [] node.kind \in {"For", "AsyncFor"} ->
            <<node.target, node.iter>> \o node.body \o node.orelse
      [] node.kind \in {"Try", "TryStar"} ->
            node.body \o node.handlers \o node.orelse \o node.finalbody
      [] node.kind = "ExceptHandler" -> node.body
      [] node.kind \in {"With", "AsyncWith"} -> node.items \o node.body
      [] node.kind = "withitem" -> <<node.context_expr>>
      [] node.kind = "Expr" -> <<node.value>>
      [] node.kind = "Call" -> <<node.func>> \o node.args
      [] node.kind = "Attribute" -> <<node.value, node.ctx>>
      [] node.kind = "Subscript" -> <<node.value, node.slice, node.ctx>>
      [] node.kind = "Name" -> <<node.ctx>>
      [] node.kind = "arguments" ->
            node.posonlyargs \o node.args \o node.vararg \o node.kwonlyargs
            \o node.kw_defaults \o node.kwarg \o node.defaults
      [] OTHER -> <<>>

(***************************************************************************)
(* ast.walk: breadth first.  todo is the deque; the node popped from its   *)
(* left is yielded after its children were appended on the right.          *)
(***************************************************************************)
RECURSIVE walk_todo(_)
walk_todo(todo) ==
    IF todo = <<>> THEN <<>>
    ELSE <<Head(todo)>> \o walk_todo(Tail(todo) \o iter_child_nodes(Head(todo)))

\* A walk that stops at the node's own children.
ast_walk_children(node) == <<node>> \o iter_child_nodes(node)

ast_walk(node) == walk_todo(<<node>>)

(***************************************************************************)
(* ast.parse: a text that is not valid source raises SyntaxError; of a     *)
(* valid text the tree is the text's own structure with the line of every  *)
(* statement set.  The text is laid out one statement per line: each       *)
(* decorator on a line before its definition, the body of a compound       *)
(* statement from the line after its header, and an else: or finally:      *)
(* clause under a header line of its own.                                  *)
(***************************************************************************)
BlockFields(kind) ==
    CASE kind \in {"If", "While", "For", "AsyncFor"} -> <<"body", "orelse">>
      [] kind \in {"Try", "TryStar"} ->
            <<"body", "handlers", "orelse", "finalbody">>
      [] kind \in {"With", "AsyncWith", "ClassDef", "ExceptHandler"}
            \cup DefKinds -> <<"body">>
      [] OTHER -> <<>>

HeaderLine(s, line) ==
    IF s.kind \in DefKinds \cup {"ClassDef"}
    THEN line + Len(s.decorator_list)
    ELSE line

RECURSIVE NumberStmts(_, _)
RECURSIVE NumberFields(_, _, _, _)

NumberStmt(s, line) ==
    NumberFields([s EXCEPT !.lineno = HeaderLine(s, line)],
                 BlockFields(s.kind), 1, HeaderLine(s, line) + 1)

NumberStmts(stmts, line) ==
    IF stmts = <<>> THEN [nodes |-> <<>>, next |-> line]
    ELSE LET h == NumberStmt(Head(stmts), line)
             t == NumberStmts(Tail(stmts), h.next)
         IN  [nodes |-> <<h.node>> \o t.nodes, next |-> t.next]

NumberFields(node, fields, i, line) ==
    IF i > Len(fields) THEN [node |-> node, next |-> line]
    ELSE LET f == fields[i]
             clause == IF i > 1 /\ f # "handlers" /\ node[f] # <<>>
                       THEN 1 ELSE 0
             b == NumberStmts(node[f], line + clause)
         IN  NumberFields([node EXCEPT ![f] = b.nodes], fields, i + 1, b.next)

Parses(code) == code.kind = "Module"

ast_parse(code) == Module(NumberStmts(code.body, 1).nodes)

(***************************************************************************)
(* CodeAnalyzer's helpers.                                                 *)
(***************************************************************************)
\* A resolution that takes the leading name of a dotted decorator.
leading_decorator_name(decorator_node) ==
    IF decorator_node.kind = "Name" THEN decorator_node.id
    ELSE IF decorator_node.kind = "Attribute"
         THEN (IF decorator_node.value.kind = "Name"
               THEN decorator_node.value.id ELSE "")
    ELSE ""

_get_decorator_name(decorator_node) ==
    IF decorator_node.kind = "Name" THEN decorator_node.id
    ELSE IF decorator_node.kind = "Attribute" THEN decorator_node.attr
    ELSE ""

RECURSIVE CountKinds(_, _)
CountKinds(nodes, kinds) ==
    IF nodes = <<>> THEN 0
    ELSE (IF Head(nodes).kind \in kinds THEN 1 ELSE 0)
         + CountKinds(Tail(nodes), kinds)

\* A count that leaves out the scoped-resource blocks.
count_branches_no_with(node) ==
    CountKinds(ast_walk(node), BranchKinds \ {"With"})

_count_branches(node) == CountKinds(ast_walk(node), BranchKinds)

RECURSIVE CalleeNames(_)
CalleeNames(nodes) ==
    IF nodes = <<>> THEN <<>>
    ELSE LET n == Head(nodes)
             this == IF n.kind # "Call" THEN <<>>
                     ELSE IF n.func.kind = "Name" THEN <<n.func.id>>
                     ELSE IF n.func.kind = "Attribute" THEN <<n.func.attr>>
                     ELSE <<>>
         IN  this \o CalleeNames(Tail(nodes))

\* An extraction without the attribute-access branch.
RECURSIVE BareCalleeNames(_)
BareCalleeNames(nodes) ==
    IF nodes = <<>> THEN <<>>
    ELSE (IF Head(nodes).kind = "Call" /\ Head(nodes).func.kind = "Name"
          THEN <<Head(nodes).func.id>> ELSE <<>>)
         \o BareCalleeNames(Tail(nodes))

extract_bare_calls(node) == BareCalleeNames(ast_walk(node))

_extract_calls(node) == CalleeNames(ast_walk(node))

ArgNames(node) == [i \in 1..Len(node.args.args) |-> node.args.args[i].arg]

DecoratorNames(node) ==
    [i \in 1..Len(node.decorator_list) |->
        _get_decorator_name(node.decorator_list[i])]

FunctionRecord(node) ==
    [name |-> node.name,
     node |-> node,
     args |-> ArgNames(node),
     is_async |-> node.kind = "AsyncFunctionDef",
     decorators |-> DecoratorNames(node),
     complexity |-> _count_branches(node),
     calls |-> _extract_calls(node),
     line |-> node.lineno]

RECURSIVE FunctionRecords(_)
FunctionRecords(nodes) ==
    IF nodes = <<>> THEN <<>>
    ELSE (IF Head(nodes).kind \in DefKinds
          THEN <<FunctionRecord(Head(nodes))>> ELSE <<>>)
         \o FunctionRecords(Tail(nodes))

extract_functions(tree) == FunctionRecords(ast_walk(tree))

\* A priority that adds one for every parameter beyond the third.
priority_per_parameter(func) ==
    func.complexity
    + (IF func.is_async THEN 2 ELSE 0)
    + (IF Len(func.args) > 3 THEN Len(func.args) - 3 ELSE 0)

calculate_priority(func) ==
    func.complexity
    + (IF func.is_async THEN 2 ELSE 0)
    + (IF Len(func.args) > 3 THEN 1 ELSE 0)

(***************************************************************************)
(* The files the analyzer is constructed on.  Each family varies one part  *)
(* of the syntax exhaustively within its bound and keeps the rest minimal. *)
(***************************************************************************)
BodyOf(children) == IF children = <<>> THEN <<Pass>> ELSE children

NestingShapes == {"If", "While", "FunctionDef", "AsyncFunctionDef", "ClassDef"}

BranchShapes == {"If", "Elif", "For", "While", "Try", "Finally", "With",
                 "AsyncFor", "AsyncWith", "TryStar", "FunctionDef"}

\* One compound statement of the given shape around the given statements.
Compound(shape, children) ==
    CASE shape = "If" -> If(BodyOf(children), <<>>)
      [] shape = "Elif" -> If(<<Pass>>, children)
      [] shape \in {"For", "AsyncFor"} -> For(shape, BodyOf(children))
      [] shape = "While" -> While(BodyOf(children))
      [] shape \in {"Try", "TryStar"} -> Try(shape, BodyOf(children), <<>>)
      [] shape = "Finally" -> Try("Try", <<Pass>>, BodyOf(children))
      [] shape \in {"With", "AsyncWith"} -> With(shape, BodyOf(children))
      [] shape \in DefKinds ->
            Def(shape, "f", NoArguments, BodyOf(children), <<>>)
      [] shape = "ClassDef" -> ClassDef("C", BodyOf(children))

\* The statement sequences made of exactly n compound statements.
RECURSIVE Forests(_, _)
Forests(shapes, n) ==
    IF n = 0 THEN {<<>>}
    ELSE UNION {{<<Compound(shape, children)>> \o rest :
                    shape \in shapes,
                    children \in Forests(shapes, k - 1),
                    rest \in Forests(shapes, n - k)} : k \in 1..n}

NestingFiles ==
    {Module(f) : f \in UNION {Forests(NestingShapes, n) : n \in 0..MaxNodes}}

BranchFiles ==
    {Module(<<Def("FunctionDef", "f", NoArguments, BodyOf(f), <<>>)>>) :
        f \in UNION {Forests(BranchShapes, n) : n \in 0..MaxBranchNodes}}

Ids == {"helper", "obj"}

RECURSIVE Exprs(_)
Exprs(d) ==
    IF d = 0 THEN {Name(id) : id \in Ids}
    ELSE LET E == Exprs(d - 1)
         IN  E \cup {Attribute(e, "method") : e \in E}
               \cup {Call(e, <<>>) : e \in E}
               \cup {Call(Name("helper"), <<e>>) : e \in E}
               \cup {Subscript(e, Name("k")) : e \in E}

CallBodies ==
    {<<Expr(e)>> : e \in Exprs(MaxExprDepth)}
    \cup {<<Expr(e1), Expr(e2)>> : e1, e2 \in Exprs(MaxExprDepth - 1)}

CallFiles ==
    {Module(<<Def("FunctionDef", "f", NoArguments, body, <<>>)>>) :
        body \in CallBodies}

DecoratorFiles ==
    {Module(<<Def("FunctionDef", "f", NoArguments, <<Pass>>, ds)>>) :
        ds \in SeqsUpTo(Exprs(1), MaxDecorators)}

ParamNames == <<"a", "b", "c", "d", "e", "f", "g", "h">>

ArgList(from, n) == [i \in 1..n |-> arg(ParamNames[from + i])]

Optional(present, node) == IF present THEN <<node>> ELSE <<>>

ParamLists ==
    UNION {{arguments(ArgList(0, p), ArgList(p, a), Optional(va, arg("args")),
                      Optional(ko, arg("k")), Optional(kw, arg("kwargs")),
                      Optional(df /\ a > 0, Call(Name("helper"), <<>>))) :
               a \in 0..(MaxParams - p),
               va \in BOOLEAN, ko \in BOOLEAN, kw \in BOOLEAN,
               df \in BOOLEAN} : p \in 0..MaxParams}

ParamFiles ==
    {Module(<<Def(kind, "f", ps, <<Pass>>, <<>>)>>) :
        kind \in DefKinds, ps \in ParamLists}

\* The cases the documentation of the analyzer works through.
ExampleNested ==
    Module(<<Def("FunctionDef", "outer", NoArguments,
                 <<If(<<Pass>>, <<>>),
                   For("For", <<Pass>>),
                   Def("FunctionDef", "inner", NoArguments,
                       <<While(<<Pass>>)>>, <<>>)>>,
                 <<>>)>>)

ExampleDecorators ==
    Module(<<Def("FunctionDef", "f", NoArguments, <<Pass>>,
                 <<Name("foo"), Attribute(Name("bar"), "baz")>>)>>)

ExampleCallsBody ==
    <<Expr(Call(Name("helper"), <<>>)),
      Expr(Call(Attribute(Name("obj"), "method"), <<>>)),
      Expr(Call(Call(Name("get_fn"), <<>>), <<>>))>>

ExampleCalls ==
    Module(<<Def("FunctionDef", "f", NoArguments, ExampleCallsBody, <<>>)>>)

ExamplePriority ==
    Module(<<Def("FunctionDef", "f",
                 arguments(<<>>, ArgList(0, 5), <<>>, <<>>, <<>>, <<>>),
                 <<If(<<Pass>>, <<>>), While(<<Pass>>)>>, <<>>),
             Def("AsyncFunctionDef", "g",
                 arguments(<<>>, ArgList(0, 1), <<>>, <<>>, <<>>, <<>>),
                 <<Pass>>, <<>>)>>)

ExampleFiles ==
    {ExampleNested, ExampleDecorators, ExampleCalls, ExamplePriority}

Texts ==
    NestingFiles \cup BranchFiles \cup CallFiles \cup DecoratorFiles
    \cup ParamFiles \cup ExampleFiles \cup {Garbage}

Files ==
    {[state |-> "missing"], [state |-> "unreadable"]}
    \cup {[state |-> "file", text |-> t] : t \in Texts}

(***************************************************************************)
(* code_analyzer.py: the state of one CodeAnalyzer and of its caller.      *)
(***************************************************************************)
Unset == [unset |-> TRUE]

FilePath == [path |-> "module.py"]

NoResult == [returned |-> FALSE]

Returned(value) == [returned |-> TRUE, value |-> value]

InitAnalyzer ==
    /\ fs_file \in Files
    /\ pc = "start"
    /\ self = [file_path |-> Unset, code |-> Unset, tree |-> Unset]
    /\ analyzer = FALSE
    /\ raised = "none"
    /\ first_result = NoResult
    /\ last_result = NoResult
    /\ extract_calls = 0
    /\ priority = NoResult

\* A constructor that recovers from a text that does not parse with an
\* empty tree.
ConstructLenient ==
    /\ pc = "start"
    /\ IF fs_file.state # "file"
       THEN /\ self' = [self EXCEPT !.file_path = FilePath]
            /\ raised' = IF fs_file.state = "missing"
                         THEN "FileNotFoundError" ELSE "PermissionError"
            /\ pc' = "failed"
            /\ UNCHANGED analyzer
       ELSE /\ self' = [file_path |-> FilePath, code |-> fs_file.text,
                        tree |-> IF Parses(fs_file.text)
                                 THEN ast_parse(fs_file.text)
                                 ELSE Module(<<>>)]
            /\ analyzer' = TRUE
            /\ pc' = "constructed"
            /\ UNCHANGED raised
    /\ UNCHANGED <<fs_file, first_result, last_result, extract_calls,
                   priority, chat, report>>

\* CodeAnalyzer(file_path): open and read raise on a file that is not there
\* or cannot be read, ast.parse raises on a text that is not valid source;
\* the caller gets the object only when __init__ returns.
Construct ==
    /\ pc = "start"
    /\ IF fs_file.state # "file"
       THEN /\ self' = [self EXCEPT !.file_path = FilePath]
            /\ raised' = IF fs_file.state = "missing"
                         THEN "FileNotFoundError" ELSE "PermissionError"
            /\ pc' = "failed"
            /\ UNCHANGED analyzer
       ELSE IF ~Parses(fs_file.text)
       THEN /\ self' = [self EXCEPT !.file_path = FilePath,
                                    !.code = fs_file.text]
            /\ raised' = "SyntaxError"
            /\ pc' = "failed"
            /\ UNCHANGED analyzer
       ELSE /\ self' = [file_path |-> FilePath, code |-> fs_file.text,
                        tree |-> ast_parse(fs_file.text)]
            /\ analyzer' = TRUE
            /\ pc' = "constructed"
            /\ UNCHANGED raised
    /\ UNCHANGED <<fs_file, first_result, last_result, extract_calls,
                   priority, chat, report>>

\* An extraction that takes the statements out of the tree as it goes.
ExtractFunctionsDraining ==
    /\ analyzer
    /\ LET functions == extract_functions(self.tree)
       IN  /\ last_result' = Returned(functions)
           /\ first_result' = IF first_result.returned THEN first_result
                              ELSE Returned(functions)
    /\ extract_calls' = IF extract_calls < MaxExtractCalls
                        THEN extract_calls + 1 ELSE extract_calls
    /\ self' = [self EXCEPT !.tree = Module(<<>>)]
    /\ UNCHANGED <<fs_file, pc, analyzer, raised, priority, chat, report>>

\* analyzer.extract_functions()
ExtractFunctions ==
    /\ analyzer
    /\ LET functions == extract_functions(self.tree)
       IN  /\ last_result' = Returned(functions)
           /\ first_result' = IF first_result.returned THEN first_result
                              ELSE Returned(functions)
    /\ extract_calls' = IF extract_calls < MaxExtractCalls
                        THEN extract_calls + 1 ELSE extract_calls
    /\ UNCHANGED <<fs_file, pc, self, analyzer, raised, priority, chat,
                   report>>

\* analyzer.calculate_priority(func), func one of the records last extracted
CalculatePriority ==
    /\ analyzer
    /\ last_result.returned
    /\ \E i \in 1..Len(last_result.value) :
          LET func == last_result.value[i]
          IN  priority' = [returned |-> TRUE, func |-> func,
                           value |-> calculate_priority(func)]
    /\ UNCHANGED <<fs_file, pc, self, analyzer, raised, first_result,
                   last_result, extract_calls, chat, report>>

Init ==
    /\ InitAnalyzer
    /\ chat = Unset
    /\ report = Unset

Next ==
    \/ Construct
    \/ ExtractFunctions
    \/ CalculatePriority

Spec == Init /\ [][Next]_vars

(***************************************************************************)
(* Definitions the properties of the analyzer are stated with.  The count  *)
(* of a kind of node in a subtree descends depth first, child by child,    *)
(* and uses no queue.                                                      *)
(***************************************************************************)
Range(seq) == {seq[i] : i \in 1..Len(seq)}

IsDefinition(node) == node.kind \in {"FunctionDef", "AsyncFunctionDef"}

IsBranch(node) == node.kind \in {"If", "For", "While", "Try", "With"}

IsNamedCall(node) ==
    node.kind = "Call" /\ node.func.kind \in {"Name", "Attribute"}

Counts(what, node) ==
    CASE what = "definitions" -> IsDefinition(node)
      [] what = "branches" -> IsBranch(node)
      [] what = "named calls" -> IsNamedCall(node)

RECURSIVE CountIn(_, _)
RECURSIVE CountInAll(_, _)
CountIn(node, what) ==
    (IF Counts(what, node) THEN 1 ELSE 0)
    + CountInAll(iter_child_nodes(node), what)

CountInAll(nodes, what) ==
    IF nodes = <<>> THEN 0
    ELSE CountIn(Head(nodes), what) + CountInAll(Tail(nodes), what)

ArgNodeNames(args) == [i \in 1..Len(args) |-> args[i].arg]

Records == IF last_result.returned THEN Range(last_result.value) ELSE {}

ConstructedOn(text) ==
    [file_path |-> FilePath, code |-> text, tree |-> ast_parse(text)]

Extracted(text) ==
    /\ last_result.returned
    /\ fs_file.state = "file"
    /\ fs_file.text = text

\* C1 as stated: a function whose body is the calls helper(), obj.method()
\* and (get_fn())() has calls = ["helper", "method"].
C1_CallsAsClaimed ==
    Extracted(ExampleCalls) =>
        last_result.value[1].calls = <<"helper", "method">>

\* C1 as amended: that function has calls = ["helper", "method", "get_fn"];
\* the outer call of the third form adds no entry, the call get_fn() inside
\* it adds "get_fn"; and every record's calls has one entry per call node
\* under the definition whose callee is a bare name or an attribute access.
C1_CallsAmended ==
    /\ Extracted(ExampleCalls) =>
          last_result.value[1].calls = <<"helper", "method", "get_fn">>
    /\ \A r \in Records : Len(r.calls) = CountIn(r.node, "named calls")

C1_Witness ==
    /\ Extracted(ExampleCalls)
    /\ Len(last_result.value[1].calls) = 3

\* C2: extract_functions returns as many records as the tree holds function
\* and asynchronous-function definitions, at every depth, same names apart.
C2_OneRecordPerDefinition ==
    last_result.returned =>
        Len(last_result.value) = CountIn(self.tree, "definitions")

C2_Witness ==
    /\ last_result.returned
    /\ Len(self.tree.body) = 1
    /\ self.tree.body[1].kind = "ClassDef"
    /\ Len(last_result.value) = 2
    /\ last_result.value[1].name = last_result.value[2].name
    /\ last_result.value[2].node \in Range(last_result.value[1].node.body)

\* C3: a record's complexity is the number of conditional, for-loop,
\* while-loop, try and with nodes under the definition, nested definitions
\* included; the outer function of the nested example has complexity 3.
C3_ComplexityCountsBranches ==
    /\ \A r \in Records : r.complexity = CountIn(r.node, "branches")
    /\ Extracted(ExampleNested) => last_result.value[1].complexity = 3

C3_Witness ==
    /\ Extracted(ExampleNested)
    /\ last_result.value[1].name = "outer"
    /\ last_result.value[1].complexity = 3
    /\ last_result.value[2].complexity = 1

\* C4: calculate_priority returns complexity + 2 for an asynchronous
\* function + 1 for more than 3 parameters, and leaves the record and the
\* analyzer as they were.
C4_Priority ==
    priority.returned =>
        /\ priority.value =
              priority.func.complexity
              + (IF priority.func.is_async THEN 2 ELSE 0)
              + (IF Len(priority.func.args) > 3 THEN 1 ELSE 0)
        /\ priority.func \in Records
        /\ self = ConstructedOn(fs_file.text)

C4_Witness ==
    /\ priority.returned
    /\ ~priority.func.is_async
    /\ priority.func.complexity = 2
    /\ Len(priority.func.args) = 5
    /\ priority.value = 3

\* C5: constructing on a file that is missing, unreadable or not valid
\* source raises; the caller holds no analyzer and gets no records.
C5_FailedConstruction ==
    (pc # "start" /\ (fs_file.state # "file" \/ ~Parses(fs_file.text))) =>
        /\ pc = "failed"
        /\ raised = (IF fs_file.state = "missing" THEN "FileNotFoundError"
                     ELSE IF fs_file.state = "unreadable"
                     THEN "PermissionError" ELSE "SyntaxError")
        /\ ~analyzer
        /\ self.tree = Unset
        /\ ~first_result.returned
        /\ ~last_result.returned

C5_Witness ==
    /\ pc = "failed"
    /\ raised = "SyntaxError"
    /\ self.code = Garbage

\* C6: every extract_functions call on one analyzer returns the same
\* sequence of records, and the analyzer's fields stay as constructed.
C6_ExtractIsRepeatable ==
    /\ first_result.returned => last_result = first_result
    /\ analyzer => self = ConstructedOn(fs_file.text)

C6_Witness ==
    /\ extract_calls >= 2
    /\ Len(last_result.value) >= 2
    /\ last_result = first_result

\* C7: decorators has one entry per decorator expression, in order: the
\* identifier of a bare name, the trailing attribute of an attribute
\* access, the empty string for anything else; foo and bar.baz give
\* ["foo", "baz"].
C7_DecoratorNames ==
    /\ \A r \in Records :
          /\ Len(r.decorators) = Len(r.node.decorator_list)
          /\ \A i \in 1..Len(r.decorators) :
                LET d == r.node.decorator_list[i]
                IN  r.decorators[i] =
                        CASE d.kind = "Name" -> d.id
                          [] d.kind = "Attribute" -> d.attr
                          [] OTHER -> ""
    /\ Extracted(ExampleDecorators) =>
          last_result.value[1].decorators = <<"foo", "baz">>

C7_Witness ==
    /\ Extracted(ExampleDecorators)
    /\ last_result.value[1].decorators = <<"foo", "baz">>

\* C8 as stated: args holds the names of all positional parameters of the
\* definition, the positional-only ones included, in declaration order,
\* and no keyword-only or variadic parameter.
C8_AllPositionalParameters ==
    \A r \in Records :
        r.args = ArgNodeNames(r.node.args.posonlyargs \o r.node.args.args)

(***************************************************************************)
(* rag.py: the chat loop.  The names the loop reads and no line of the     *)
(* file binds (client) are taken as bound by the deployment; the names the *)
(* loop itself binds (docs, context, messages) start unbound and, once     *)
(* bound, stay bound from one iteration to the next.  A text joined from   *)
(* chunks is kept as the sequence of the chunks joined.                    *)
(***************************************************************************)
Unbound == [bound |-> FALSE]

Bound(value) == [bound |-> TRUE, value |-> value]

chunks == <<"chunk 1", "chunk 2", "chunk 3", "chunk 4">>

qa_prompt == "You are a Senior Software Quality Assurance AI Agent. ..."

assistant_prompt == "You are a helpful QA assistant. ..."

\* What the user may type at the prompt.
RawInputs ==
    {"", "   ", "exit", "EXIT", " Exit ", "review", "REVIEW", " Review ",
     "what is tested?", "Who wrote it? "}

\* str.strip
strip(raw) ==
    CASE raw = "   " -> ""
      [] raw = " Exit " -> "Exit"
      [] raw = " Review " -> "Review"
      [] raw = "Who wrote it? " -> "Who wrote it?"
      [] OTHER -> raw

\* str.lower
lower(text) ==
    CASE text \in {"EXIT", "Exit"} -> "exit"
      [] text \in {"REVIEW", "Review"} -> "review"
      [] text = "Who wrote it?" -> "who wrote it?"
      [] OTHER -> text

\* vectorstore.similarity_search(query, k=3): at most 3 chunks of the index.
SearchResults ==
    {<<>>, <<"chunk 2">>, <<"chunk 3", "chunk 1">>,
     <<"chunk 4", "chunk 2", "chunk 1">>}

ReviewMessages ==
    <<[role |-> "system", content |-> qa_prompt],
      [role |-> "user",
       content |-> [head |-> "Project Document:", context |-> chunks]]>>

QuestionMessages(context, query) ==
    <<[role |-> "system", content |-> assistant_prompt],
      [role |-> "user",
       content |-> [head |-> "Context:", context |-> context,
                    question |-> query]]>>

InitChat ==
    chat = [pc |-> "loop", docs |-> Unbound, context |-> Unbound,
            messages |-> Unbound, log |-> <<>>]

\* One iteration as the log keeps it: what was typed, the requests made to
\* the chat-completion endpoint, and what the user was shown.
Iteration(raw, requests, shown) ==
    [raw |-> raw, requests |-> requests, shown |-> shown]

Looping == chat.pc = "loop" /\ Len(chat.log) < MaxIterations

\* lines 135-150, reached with context and messages bound by the branch
\* before them: the debug line reads docs, then the request is made, and
\* the request either answers or raises.
DebugAndRequest(raw, docs, context, messages) ==
    IF ~docs.bound
    THEN chat' = [chat EXCEPT
                    !.context = Bound(context), !.messages = Bound(messages),
                    !.log = Append(@, Iteration(raw, <<>>, "Error occurred: NameError"))]
    ELSE \E outcome \in {"AI Response", "Error occurred: APIError"} :
            chat' = [chat EXCEPT
                        !.docs = docs, !.context = Bound(context),
                        !.messages = Bound(messages),
                        !.log = Append(@, Iteration(raw, <<messages>>, outcome))]

\* input() raises (end of input): caught by the loop's handler.
ChatInputFails ==
    /\ Looping
    /\ chat' = [chat EXCEPT
                  !.log = Append(@, Iteration("", <<>>, "Error occurred: EOFError"))]
    /\ UNCHANGED analyzerVars
    /\ UNCHANGED report

\* an empty line: continue
ChatEmptyLine ==
    /\ Looping
    /\ \E raw \in RawInputs :
          /\ strip(raw) = ""
          /\ chat' = [chat EXCEPT !.log = Append(@, Iteration(raw, <<>>, ""))]
    /\ UNCHANGED analyzerVars
    /\ UNCHANGED report

\* exit: break
ChatExit ==
    /\ Looping
    /\ \E raw \in RawInputs :
          /\ strip(raw) # ""
          /\ lower(strip(raw)) = "exit"
          /\ chat' = [chat EXCEPT
                        !.pc = "done",
                        !.log = Append(@, Iteration(raw, <<>>, "Goodbye!"))]
    /\ UNCHANGED analyzerVars
    /\ UNCHANGED report

\* review: the whole document is the context
ChatReview ==
    /\ Looping
    /\ \E raw \in RawInputs :
          /\ strip(raw) # ""
          /\ lower(strip(raw)) = "review"
          /\ DebugAndRequest(raw, chat.docs, chunks, ReviewMessages)
    /\ UNCHANGED analyzerVars
    /\ UNCHANGED report

\* any other line: a question answered from the chunks the search returns
ChatQuestion ==
    /\ Looping
    /\ \E raw \in RawInputs :
          /\ strip(raw) # ""
          /\ lower(strip(raw)) \notin {"exit", "review"}
          /\ \/ chat' = [chat EXCEPT
                           !.log = Append(@, Iteration(raw, <<>>,
                                              "Error occurred: search failed"))]
             \/ \E docs \in SearchResults :
                   IF docs = <<>>
                   THEN chat' = [chat EXCEPT
                                   !.docs = Bound(docs),
                                   !.log = Append(@, Iteration(raw, <<>>,
                                              "No relevant information found in document."))]
                   ELSE DebugAndRequest(raw, Bound(docs), docs,
                                        QuestionMessages(docs, strip(raw)))
    /\ UNCHANGED analyzerVars
    /\ UNCHANGED report

\* The analyzer is not part of the chat loop's runs.
IdleAnalyzer ==
    /\ fs_file = [state |-> "missing"]
    /\ pc = "start"
    /\ self = [file_path |-> Unset, code |-> Unset, tree |-> Unset]
    /\ analyzer = FALSE
    /\ raised = "none"
    /\ first_result = NoResult
    /\ last_result = NoResult
    /\ extract_calls = 0
    /\ priority = NoResult

InitChatLoop ==
    /\ IdleAnalyzer
    /\ InitChat
    /\ report = Unset

NextChatLoop ==
    \/ ChatInputFails
    \/ ChatEmptyLine
    \/ ChatExit
    \/ ChatReview
    \/ ChatQuestion

SpecChat == InitChatLoop /\ [][NextChatLoop]_vars

\* C9 as stated: every iteration in which review is typed, in any letter
\* case, makes one request whose messages are the QA prompt and the text of
\* all chunks, whatever was typed before it, also as the very first
\* command; and the loop ends only on exit.
C9_ReviewAlwaysRequests ==
    /\ \A i \in 1..Len(chat.log) :
          lower(strip(chat.log[i].raw)) = "review" =>
              chat.log[i].requests = <<ReviewMessages>>
    /\ chat.pc = "done" =>
          lower(strip(chat.log[Len(chat.log)].raw)) = "exit"

(***************************************************************************)
(* reporting_agent.py: one ReportingAgent, the log file it reads and the   *)
(* files it writes.  A log is a sequence of lines; of a line the model     *)
(* keeps what the patterns of parse_unittest_log find in it.               *)
(***************************************************************************)
LogLine(text, ran, fail_marks, fail_names, error_marks, error_names) ==
    [text |-> text,
     ran |-> ran,                  \* <<n>> for a match of "Ran (\d+) tests?"
     fail_marks |-> fail_marks,    \* occurrences of "FAIL:"
     fail_names |-> fail_names,    \* matches of "FAIL: (.+)"
     error_marks |-> error_marks,  \* occurrences of "ERROR:"
     error_names |-> error_names]  \* matches of "ERROR: (.+)"

LogLines ==
    {LogLine("Ran 2 tests in 0.001s", <<2>>, 0, <<>>, 0, <<>>),
     LogLine("FAIL: test_a (tests.T)", <<>>, 1, <<"test_a (tests.T)">>, 0, <<>>),
     LogLine("ERROR: test_b (tests.T)", <<>>, 0, <<>>, 1, <<"test_b (tests.T)">>),
     LogLine("self.fail('FAIL:')", <<>>, 1, <<>>, 0, <<>>)}

Logs == SeqsUpTo(LogLines, MaxLogLines)

LogFiles ==
    {[state |-> "missing"], [state |-> "directory"]}
    \cup {[state |-> "file", content |-> c] : c \in Logs}

RECURSIVE SumOver(_, _)
SumOver(lines, field) ==
    IF lines = <<>> THEN 0
    ELSE Head(lines)[field] + SumOver(Tail(lines), field)

RECURSIVE FindAll(_, _)
FindAll(lines, field) ==
    IF lines = <<>> THEN <<>>
    ELSE Head(lines)[field] \o FindAll(Tail(lines), field)

recommendations == <<"Remove import-time side effects in main.py.", "..." >>

\* The dictionary parse_unittest_log builds from the text of the log.
ParsedResults(content) ==
    LET ran == FindAll(content, "ran")
        failures == SumOver(content, "fail_marks")
        errors == SumOver(content, "error_marks")
    IN  [tests_run |-> IF ran = <<>> THEN 0 ELSE ran[1],
         failures |-> failures,
         errors |-> errors,
         skipped |-> 0,
         failed_tests |-> FindAll(content, "fail_names"),
         error_tests |-> FindAll(content, "error_names"),
         raw_log |-> content,
         status |-> IF failures > 0 \/ errors > 0 THEN "FAILED" ELSE "PASSED",
         recommendations |-> recommendations]

\* self.results == {}
EmptyResults == [empty |-> TRUE]

Results(dict) == [empty |-> FALSE, dict |-> dict]

NoFile == [written |-> FALSE]

InitReport ==
    \E f \in LogFiles :
        report = [log_file |-> f,
                  pc |-> "start",
                  results |-> EmptyResults,
                  parse_called |-> FALSE,
                  parse_returned |-> NoResult,
                  last_call |-> "none",
                  raised |-> "none",
                  pdf |-> NoFile,
                  chart |-> FALSE]

\* ReportingAgent(log_path)
ConstructAgent ==
    /\ report.pc = "start"
    /\ \/ /\ report.log_file.state = "missing"
          /\ report' = [report EXCEPT !.pc = "failed",
                                      !.last_call = "__init__",
                                      !.raised = "FileNotFoundError"]
       \/ /\ report.log_file.state # "missing"
          /\ \/ report' = [report EXCEPT !.pc = "failed",
                                         !.last_call = "__init__",
                                         !.raised = "OpenAIError"]
             \/ report' = [report EXCEPT !.pc = "constructed",
                                         !.last_call = "__init__",
                                         !.results = EmptyResults]
    /\ UNCHANGED analyzerVars
    /\ UNCHANGED chat

\* The test run rewrites the log, or the log is removed.
LogChanges ==
    /\ report.pc = "constructed"
    /\ \E f \in LogFiles :
          /\ f # report.log_file
          /\ report' = [report EXCEPT !.log_file = f]
    /\ UNCHANGED analyzerVars
    /\ UNCHANGED chat

\* agent.parse_unittest_log(): read_text raises before self.results is
\* assigned when the path is no readable file.
ParseUnittestLog ==
    /\ report.pc = "constructed"
    /\ IF report.log_file.state # "file"
       THEN report' = [report EXCEPT
                          !.parse_called = TRUE,
                          !.last_call = "parse_unittest_log",
                          !.raised = IF report.log_file.state = "missing"
                                     THEN "FileNotFoundError"
                                     ELSE "IsADirectoryError"]
       ELSE LET dict == ParsedResults(report.log_file.content)
            IN  report' = [report EXCEPT
                              !.parse_called = TRUE,
                              !.last_call = "parse_unittest_log",
                              !.raised = "none",
                              !.results = Results(dict),
                              !.parse_returned = Returned(dict)]
    /\ UNCHANGED analyzerVars
    /\ UNCHANGED chat

\* What generate_pdf_report writes into the document from self.results.
Rendered(dict, chart_embedded, coverage_report) ==
    [status |-> dict.status,
     chart |-> chart_embedded,
     tests_run |-> dict.tests_run,
     failures |-> dict.failures,
     errors |-> dict.errors,
     coverage |-> coverage_report,
     failed_tests |-> IF dict.failures > 0 \/ dict.errors > 0
                      THEN dict.failed_tests ELSE <<>>,
     error_tests |-> IF dict.failures > 0 \/ dict.errors > 0
                     THEN dict.error_tests ELSE <<>>,
     recommendations |-> dict.recommendations]

\* generate_charts and the embedding of its image, inside the try: the pie
\* raises on a negative share before any file is saved; the image may fail
\* to embed after it was saved, and is then not removed.
ChartOutcomes(dict) ==
    IF dict.tests_run < dict.failures + dict.errors
    THEN {"not drawn"}
    ELSE {"embedded", "not drawn", "saved, not embedded"}

\* A generate_pdf_report without the guard on self.results.
GeneratePdfReportUnguarded ==
    /\ report.pc = "constructed"
    /\ IF report.results.empty
       THEN report' = [report EXCEPT !.last_call = "generate_pdf_report",
                                     !.raised = "KeyError"]
       ELSE \E outcome \in ChartOutcomes(report.results.dict),
               coverage_report \in {"", "coverage"} :
               report' = [report EXCEPT
                             !.last_call = "generate_pdf_report",
                             !.raised = "none",
                             !.chart = @ \/ outcome = "saved, not embedded",
                             !.pdf = [written |-> TRUE,
                                      content |-> Rendered(report.results.dict,
                                                           outcome = "embedded",
                                                           coverage_report)]]
    /\ UNCHANGED analyzerVars
    /\ UNCHANGED chat

\* agent.generate_pdf_report(output_path, coverage_report)
GeneratePdfReport ==
    /\ report.pc = "constructed"
    /\ IF report.results.empty
       THEN report' = [report EXCEPT !.last_call = "generate_pdf_report",
                                     !.raised = "ValueError"]
       ELSE \E outcome \in ChartOutcomes(report.results.dict),
               coverage_report \in {"", "coverage"} :
               report' = [report EXCEPT
                             !.last_call = "generate_pdf_report",
                             !.raised = "none",
                             !.chart = @ \/ outcome = "saved, not embedded",
                             !.pdf = [written |-> TRUE,
                                      content |-> Rendered(report.results.dict,
                                                           outcome = "embedded",
                                                           coverage_report)]]
    /\ UNCHANGED analyzerVars
    /\ UNCHANGED chat

InitReporting ==
    /\ IdleAnalyzer
    /\ chat = Unset
    /\ InitReport

NextReporting ==
    \/ ConstructAgent
    \/ LogChanges
    \/ ParseUnittestLog
    \/ GeneratePdfReport

SpecReport == InitReporting /\ [][NextReporting]_vars

\* Right after a generate_pdf_report call that passed the guard: the
\* document holds the status, the counts and the test names of the
\* dictionary the latest parse_unittest_log call returned.
RendersLatestParse ==
    /\ report.raised # "ValueError"
    /\ report.parse_returned.returned
    /\ report.pdf.written
    /\ LET doc == report.pdf.content
           dict == report.parse_returned.value
       IN  /\ doc.status = dict.status
           /\ doc.tests_run = dict.tests_run
           /\ doc.failures = dict.failures
           /\ doc.errors = dict.errors
           /\ (dict.failures > 0 \/ dict.errors > 0) =>
                 /\ doc.failed_tests = dict.failed_tests
                 /\ doc.error_tests = dict.error_tests

RaisesAndWritesNothing ==
    /\ report.raised = "ValueError"
    /\ ~report.pdf.written
    /\ ~report.chart

\* C10 as stated: generate_pdf_report raises ValueError and writes no PDF
\* and no chart while parse_unittest_log has not been called; once it has
\* been called, generate_pdf_report passes the guard and renders what the
\* latest parse_unittest_log call stored.
C10_GuardAsClaimed ==
    report.last_call = "generate_pdf_report" =>
        IF report.parse_called THEN RendersLatestParse
        ELSE RaisesAndWritesNothing

\* C10 as amended: the same, with "has returned" for "has been called": a
\* parse_unittest_log call that raises on reading the log stores nothing.
C10_GuardAmended ==
    report.last_call = "generate_pdf_report" =>
        IF report.parse_returned.returned THEN RendersLatestParse
        ELSE RaisesAndWritesNothing

C10_Witness ==
    /\ report.last_call = "generate_pdf_report"
    /\ report.pdf.written
    /\ report.pdf.content.status = "FAILED"
    /\ report.pdf.content.failed_tests # <<>>
    /\ report.log_file.state = "file"
    /\ report.log_file.content # report.parse_returned.value.raw_log

====
